---- MODULE Spec2Model ----
(***************************************************************************)
(* Olive Young Global bestseller ranking job: scrape, snapshot, day-over-  *)
(* day rank diff, Slack notice, Drive persistence.                         *)
(*                                                                         *)
(* The repository holds several versions of the same batch job (app.py,    *)
(* main.py + slack_notify.py, utils.py).  Each part of the job is modelled *)
(* by its own group of variables and its own specification; a              *)
(* specification holds the other groups at their idle values.              *)
(***************************************************************************)
EXTENDS Integers, Sequences, FiniteSets, TLC

(***************************************************************************)
(* Program constants                                                       *)
(***************************************************************************)
Top30 == 30
Top10 == 10
RisingCap == 3
NewCap == 3
FallingCap == 5
MinItems == 10

(***************************************************************************)
(* Bounds of the model                                                     *)
(***************************************************************************)
\* products of the exhaustively enumerated listings
SmallUrls == 3
\* products of the long listings (enough to exceed every section cap)
LongLen == 7
\* KST dates the clock runs through
MaxDay == 3

\* the marker of a missing value (None / float nan) in a column
NaN == "NaN"
\* Python's None for a rank argument of line_move (ranks start at 1)
NoRank == 0

(***************************************************************************)
(* Generic helpers                                                         *)
(***************************************************************************)
Range(s) == {s[i] : i \in DOMAIN s}

Min2(a, b) == IF a <= b THEN a ELSE b

\* list[:n]
Take(s, n) == SubSeq(s, 1, Min2(n, Len(s)))

\* sequences without repetition over S, of length at most n
InjSeqs(S, n) ==
    UNION {{s \in [1..k -> S] : \A i, j \in 1..k : s[i] = s[j] => i = j} : k \in 0..n}

\* the sequence s with its i-th element moved to position j
Move(s, i, j) ==
    LET without == [k \in 1..(Len(s) - 1) |-> IF k < i THEN s[k] ELSE s[k + 1]]
    IN  [k \in 1..Len(s) |-> IF k < j THEN without[k]
                             ELSE IF k = j THEN s[i]
                             ELSE without[k - 1]]

Reverse(s) == [k \in 1..Len(s) |-> s[Len(s) + 1 - k]]

(***************************************************************************)
(* The products the ranking page can show.  What the page shows of a       *)
(* product is fixed per URL: some products have no brand element, no price *)
(* element or no discount element, which the parser turns into "" / None.  *)
(***************************************************************************)
UrlList ==
    <<"u01", "u02", "u03", "u04", "u05", "u06", "u07", "u08", "u09", "u10", "u11", "u12">>

\* position of a URL in string order (sorted(list(out)) sorts URLs)
UrlOrd(u) == CHOOSE i \in DOMAIN UrlList : UrlList[i] = u

\* words of product titles, in string (code point) order
WordList == <<"&", "&amp;", "Acme", "Balm", "Gel", "Mist", "Serum">>

WordOrd(w) == CHOOSE i \in DOMAIN WordList : WordList[i] = w

CatBrand(u) == IF UrlOrd(u) % 4 = 3 THEN "" ELSE "Acme"

CatTitle(u) ==
    CASE UrlOrd(u) % 3 = 0 -> <<"Acme", "Gel", "&", "Mist">>
      [] UrlOrd(u) % 3 = 1 -> <<"Acme", "Serum">>
      [] OTHER             -> <<"Balm">>

CatPrice(u) == IF UrlOrd(u) % 3 = 0 THEN NaN ELSE "12.50"

CatDiscount(u) == IF UrlOrd(u) % 2 = 0 THEN "10" ELSE NaN

\* one row of to_dataframe(products, date_str)
ProductRow(u, rank) ==
    [url |-> u, rank |-> rank, brand |-> CatBrand(u), product_name |-> CatTitle(u),
     price |-> CatPrice(u), discount_percent |-> CatDiscount(u)]

\* the snapshot of a page listing the products urls in order, the first one
\* being the (off+1)-th element the item selector found
Listing(urls, off) == [i \in 1..Len(urls) |-> ProductRow(urls[i], off + i)]

(***************************************************************************)
(* CSV round trip (DataFrame.to_csv, pandas.read_csv)                      *)
(***************************************************************************)
\* the cell texts read_csv turns into a missing value
NaValues == {"", "NaN", "nan", "NA", "N/A", "null", "NULL", "None", "n/a", "#N/A"}

ToCsvCell(v) == IF v = NaN THEN "" ELSE v

ReadCsvCell(c) == IF c \in NaValues THEN NaN ELSE c

ToCsvRow(r) ==
    [url |-> ToCsvCell(r.url), rank |-> r.rank, brand |-> ToCsvCell(r.brand),
     product_name |-> r.product_name, price |-> ToCsvCell(r.price),
     discount_percent |-> ToCsvCell(r.discount_percent)]

ReadCsvRow(c) ==
    [url |-> ReadCsvCell(c.url), rank |-> c.rank, brand |-> ReadCsvCell(c.brand),
     product_name |-> c.product_name, price |-> ReadCsvCell(c.price),
     discount_percent |-> ReadCsvCell(c.discount_percent)]

ToCsv(df) == [i \in DOMAIN df |-> ToCsvRow(df[i])]

ReadCsv(csv) == [i \in DOMAIN csv |-> ReadCsvRow(csv[i])]

\* df_prev of main: None, or the DataFrame read from the downloaded file
DfNone == [isNone |-> TRUE, rows |-> <<>>]

DfOf(rows) == [isNone |-> FALSE, rows |-> rows]

(***************************************************************************)
(* app.py: text helpers.  A product title is the sequence of its words; a  *)
(* brand, a price and a discount are single tokens.                        *)
(***************************************************************************)
\* clean_text(s) raises TypeError when s is a float nan: (s or "") keeps the
\* nan, and re.sub refuses it
CleanTextRaises(s) == s = NaN

\* clean_text on text the parser has already normalised
CleanText(s) == s

SlackEscapeWord(w) ==
    CASE w = "&" -> "&amp;"
      [] w = "<" -> "&lt;"
      [] w = ">" -> "&gt;"
      [] OTHER   -> w

SlackEscape(t) == [i \in DOMAIN t |-> SlackEscapeWord(t[i])]

FmtCurrencyUsd(v) == <<"$", IF v = NaN THEN "nan" ELSE v>>

RemoveBrandRaises(title, brand) == CleanTextRaises(brand)

\* strips the brand from the front of the title
RemoveBrandFromTitle(title, brand) ==
    LET t == CleanText(title)
        b == CleanText(brand)
    IN  IF b = "" THEN t
        ELSE IF Len(t) > 0 /\ t[1] = b THEN Tail(t)
        ELSE t

\* <url|label>
Link(url, label) == [url |-> url, label |-> label]

\* the text line_move returns (its second result is unused by build_sections)
LineMove(name_link, prev_rank, curr_rank) ==
    LET base == [url |-> name_link.url, name |-> name_link.label,
                 prev |-> prev_rank, curr |-> curr_rank]
    IN  IF prev_rank = NoRank /\ curr_rank # NoRank
          THEN base @@ [kind |-> "NEW", delta |-> 0]
        ELSE IF curr_rank = NoRank /\ prev_rank # NoRank
          THEN base @@ [kind |-> "OUT", delta |-> 0]
        ELSE IF prev_rank = NoRank \/ curr_rank = NoRank
          THEN base @@ [kind |-> "plain", delta |-> 0]
        ELSE IF prev_rank - curr_rank > 0
          THEN base @@ [kind |-> "up", delta |-> prev_rank - curr_rank]
        ELSE IF prev_rank - curr_rank < 0
          THEN base @@ [kind |-> "down", delta |-> curr_rank - prev_rank]
        ELSE base @@ [kind |-> "same", delta |-> 0]

(***************************************************************************)
(* app.py: build_sections                                                  *)
(***************************************************************************)
\* string order of two names
RECURSIVE NameLess(_, _)
NameLess(a, b) ==
    IF Len(b) = 0 THEN FALSE
    ELSE IF Len(a) = 0 THEN TRUE
    ELSE IF a[1] # b[1] THEN WordOrd(a[1]) < WordOrd(b[1])
    ELSE NameLess(Tail(a), Tail(b))

\* a sort key that breaks ties by the larger current rank
MoveKeyLess_TieByLargerRank(x, y) ==
    \/ x.amount > y.amount
    \/ x.amount = y.amount /\ x.curr > y.curr

\* key=lambda x: (-x[0], x[1], x[2], x[3])
MoveKeyLess(x, y) ==
    \/ x.amount > y.amount
    \/ x.amount = y.amount /\ x.curr < y.curr
    \/ x.amount = y.amount /\ x.curr = y.curr /\ x.prev < y.prev
    \/ x.amount = y.amount /\ x.curr = y.curr /\ x.prev = y.prev
         /\ NameLess(x.name, y.name)

\* list.sort(key=...) of the entries collected from a set
RECURSIVE SortMoves(_)
SortMoves(E) ==
    IF E = {} THEN <<>>
    ELSE LET m == CHOOSE x \in E : \A y \in E : ~MoveKeyLess(y, x)
         IN  <<m>> \o SortMoves(E \ {m})

\* newcomers.sort(key=lambda x: x[0])
RECURSIVE SortNewcomers(_)
SortNewcomers(E) ==
    IF E = {} THEN <<>>
    ELSE LET m == CHOOSE x \in E : \A y \in E : x.curr <= y.curr
         IN  <<m>> \o SortNewcomers(E \ {m})

\* sorted(list(out))
RECURSIVE SortUrls(_)
SortUrls(K) ==
    IF K = {} THEN <<>>
    ELSE LET m == CHOOSE x \in K : \A y \in K : UrlOrd(x) <= UrlOrd(y)
         IN  <<m>> \o SortUrls(K \ {m})

\* sort_values("rank")
RECURSIVE SortByRank(_)
SortByRank(df) ==
    IF Len(df) = 0 THEN <<>>
    ELSE LET i == CHOOSE j \in DOMAIN df : \A k \in DOMAIN df : df[j].rank <= df[k].rank
             rest == [k \in 1..(Len(df) - 1) |-> IF k < i THEN df[k] ELSE df[k + 1]]
         IN  <<df[i]>> \o SortByRank(rest)

\* the index of a frame after set_index("key"), key = url
Index(df) == {df[i].url : i \in DOMAIN df}

\* df.loc[k]
Loc(df, k) == df[CHOOSE i \in DOMAIN df : df[i].url = k]

\* a filter that keeps every row of the snapshot
InTop30_AnyRank(r) == r.rank >= 1

InTop30(r) == r.rank <= Top30

\* t30 / p30: the rows of rank <= 30
TopRows(df) == SelectSeq(df, InTop30)

\* df_p: the previous frame, empty when df_prev is None or has no row
PrevFrame(df_prev) ==
    IF ~df_prev.isNone /\ Len(df_prev.rows) > 0 THEN df_prev.rows ELSE <<>>

Common(t30, p30) == Index(t30) \cap Index(p30)

NewKeys(t30, p30) == Index(t30) \ Index(p30)

OutKeys(t30, p30) == Index(p30) \ Index(t30)

NameOf(r) == RemoveBrandFromTitle(r.product_name, r.brand)

Top10Line(r) ==
    [rank |-> r.rank, url |-> r.url, name |-> SlackEscape(NameOf(r)),
     price |-> FmtCurrencyUsd(r.price),
     tail |-> IF r.discount_percent # NaN THEN r.discount_percent ELSE ""]

Top10Rows(df_t) == Take(SortByRank(df_t), Top10)

RisingEntries(t30, p30) ==
    {[amount |-> Loc(p30, k).rank - Loc(t30, k).rank,
      curr |-> Loc(t30, k).rank, prev |-> Loc(p30, k).rank,
      name |-> SlackEscape(NameOf(Loc(t30, k))),
      line |-> LineMove(Link(k, SlackEscape(NameOf(Loc(t30, k)))),
                        Loc(p30, k).rank, Loc(t30, k).rank)] :
       k \in {c \in Common(t30, p30) : Loc(p30, c).rank - Loc(t30, c).rank > 0}}

FallingEntries(t30, p30) ==
    {[amount |-> Loc(t30, k).rank - Loc(p30, k).rank,
      curr |-> Loc(t30, k).rank, prev |-> Loc(p30, k).rank,
      name |-> SlackEscape(NameOf(Loc(t30, k))),
      line |-> LineMove(Link(k, SlackEscape(NameOf(Loc(t30, k)))),
                        Loc(p30, k).rank, Loc(t30, k).rank)] :
       k \in {c \in Common(t30, p30) : Loc(t30, c).rank - Loc(p30, c).rank > 0}}

NewcomerEntries(t30, p30) ==
    {[curr |-> Loc(t30, k).rank,
      line |-> [url |-> k, name |-> SlackEscape(NameOf(Loc(t30, k))),
                prev |-> NoRank, curr |-> Loc(t30, k).rank,
                kind |-> "NEW", delta |-> 0]] : k \in NewKeys(t30, p30)}

Lines(entries) == [i \in DOMAIN entries |-> entries[i].line]

RisingSection(t30, p30) == Lines(Take(SortMoves(RisingEntries(t30, p30)), RisingCap))

FallingSection(t30, p30) == Lines(Take(SortMoves(FallingEntries(t30, p30)), FallingCap))

NewcomersSection(t30, p30) ==
    Lines(Take(SortNewcomers(NewcomerEntries(t30, p30)), NewCap))

OutsSection(t30, p30) ==
    LET ks == SortUrls(OutKeys(t30, p30))
    IN  [i \in DOMAIN ks |->
           LineMove(Link(ks[i], SlackEscape(NameOf(Loc(p30, ks[i])))),
                    Loc(p30, ks[i]).rank, NoRank)]

InoutCount(t30, p30) == Cardinality(NewKeys(t30, p30)) + Cardinality(OutKeys(t30, p30))

\* whether one of the remove_brand_from_title calls of build_sections raises
SectionsRaise(df_today, df_prev) ==
    LET t30 == TopRows(df_today)
        p30 == TopRows(PrevFrame(df_prev))
    IN  \/ \E r \in Range(Top10Rows(df_today)) :
              RemoveBrandRaises(r.product_name, r.brand)
        \/ /\ Len(t30) > 0
           /\ \/ \E k \in Index(t30) :
                    RemoveBrandRaises(Loc(t30, k).product_name, Loc(t30, k).brand)
              \/ \E k \in OutKeys(t30, p30) :
                    RemoveBrandRaises(Loc(p30, k).product_name, Loc(p30, k).brand)

EmptySections ==
    [status |-> "returned", top10 |-> <<>>, rising |-> <<>>, newcomers |-> <<>>,
     falling |-> <<>>, outs |-> <<>>, inout_count |-> 0]

\* build_sections(df_today, df_prev): the sections S, or the TypeError it raises
BuildSections(df_today, df_prev) ==
    LET t30 == TopRows(df_today)
        p30 == TopRows(PrevFrame(df_prev))
        top10 == [i \in DOMAIN Top10Rows(df_today) |-> Top10Line(Top10Rows(df_today)[i])]
    IN  IF SectionsRaise(df_today, df_prev)
          THEN [EmptySections EXCEPT !.status = "TypeError"]
        ELSE IF Len(t30) = 0
          THEN [EmptySections EXCEPT !.top10 = top10]
        ELSE [status |-> "returned", top10 |-> top10,
              rising |-> RisingSection(t30, p30),
              newcomers |-> NewcomersSection(t30, p30),
              falling |-> FallingSection(t30, p30),
              outs |-> OutsSection(t30, p30),
              inout_count |-> InoutCount(t30, p30)]

(***************************************************************************)
(* build_sections as a state machine: the two frames main hands it, and    *)
(* the result.                                                             *)
(***************************************************************************)
\* build_sections: its two arguments and its result
VARIABLES df_today, df_prev, S

secVars == <<df_today, df_prev, S>>

\* Google Drive: the files of the account, the next file id, the last upload
VARIABLES drive, nextId, up

driveVars == <<drive, nextId, up>>

\* app.py: the KST date, where the run is, and the run's locals and effects
VARIABLES clock, pc, date_str, ymd_yesterday, http, kr, us, open, launches, debug,
          items, fetched, localCsv, asked, posts, mainRet, exitCode

appVars == <<clock, pc, date_str, ymd_yesterday, http, kr, us, open, launches, debug,
             items, fetched, localCsv, asked, posts, mainRet, exitCode>>

\* the calls of the posting steps made so far
VARIABLES calls

postVars == <<calls>>

\* compute_diffs_and_blocks: its two frames and its result
VARIABLES ut_today, ut_prev, B

utilVars == <<ut_today, ut_prev, B>>

\* parse_prices_and_discount: the text of a price block and the result
VARIABLES price_text, P

priceVars == <<price_text, P>>

\* gdrive_upload.py: the environment, where upload_to_drive is, the token
\* refreshes tried, the credentials chosen, the Drive API calls made
VARIABLES g_env, g_pc, g_attempts, g_creds, g_calls

credVars == <<g_env, g_pc, g_attempts, g_creds, g_calls>>

\* slack_notify.py: the frames handed to analyze and its result; the data/
\* directory of daily snapshot files and the outcome of the last main()
VARIABLES an_today, an_prev, A, n_data, N

notifyVars == <<an_today, an_prev, A, n_data, N>>

vars == <<secVars, driveVars, appVars, postVars, utilVars, priceVars, credVars, notifyVars>>

PendingSections == [EmptySections EXCEPT !.status = "pending"]

SmallSet == {UrlList[i] : i \in 1..SmallUrls}

\* how many elements the item selector found before the first product
Offsets == {0, Top30 - 2, Top30}

LongOffsets == {0, Top30 - 5}

\* today's frame is never empty (main stops below MinItems products)
SmallSnaps == {Listing(s, o) : s \in InjSeqs(SmallSet, SmallUrls) \ {<<>>}, o \in Offsets}

LongBase == SubSeq(UrlList, 1, LongLen)

LongTodays ==
    {Listing(Move(LongBase, i, j), o) : i \in 1..LongLen, j \in 1..LongLen, o \in LongOffsets}
    \cup {Listing(Reverse(LongBase), o) : o \in LongOffsets}

\* a previous frame is a snapshot an earlier run saved, read back from its CSV
Downloaded(snapshot) == DfOf(ReadCsv(ToCsv(snapshot)))

SectionInputs ==
    (SmallSnaps \X ({DfNone} \cup {Downloaded(p) : p \in SmallSnaps}))
    \cup (LongTodays \X ({DfNone} \cup {Downloaded(Listing(LongBase, o)) : o \in LongOffsets}))

SecIdle == df_today = <<>> /\ df_prev = DfNone /\ S = PendingSections

SecInit ==
    /\ \E inp \in SectionInputs : df_today = inp[1] /\ df_prev = inp[2]
    /\ S = PendingSections

DoBuildSections ==
    /\ S.status = "pending"
    /\ S' = BuildSections(df_today, df_prev)
    /\ UNCHANGED <<df_today, df_prev>>
    /\ UNCHANGED <<driveVars, appVars, postVars, utilVars, priceVars, credVars, notifyVars>>

SecNext == DoBuildSections

(***************************************************************************)
(* Claims about build_sections.  They are stated over the two frames       *)
(* themselves, not over the intermediate sets build_sections computes.     *)
(***************************************************************************)
PrevRows == IF df_prev.isNone THEN {} ELSE Range(df_prev.rows)

TodayTopUrls == {r.url : r \in {x \in Range(df_today) : x.rank <= 30}}

PrevTopUrls == {r.url : r \in {x \in PrevRows : x.rank <= 30}}

TodayRank(u) == (CHOOSE r \in Range(df_today) : r.url = u).rank

PrevRank(u) == (CHOOSE r \in PrevRows : r.url = u).rank

ImprovedUrls == {u \in TodayTopUrls \cap PrevTopUrls : PrevRank(u) > TodayRank(u)}

WorsenedUrls == {u \in TodayTopUrls \cap PrevTopUrls : TodayRank(u) > PrevRank(u)}

FreshUrls == TodayTopUrls \ PrevTopUrls

GoneUrls == PrevTopUrls \ TodayTopUrls

SectionUrls(sec) == {sec[i].url : i \in DOMAIN sec}

NoRepeat(sec) == \A i, j \in DOMAIN sec : sec[i].url = sec[j].url => i = j

\* C1: every rising line is for a URL in both top-30 sets whose previous rank
\* is greater than its current rank, every falling line for one whose current
\* rank is greater, every newcomer line for a URL only in today's top 30,
\* every OUT line for a URL only in the previous top 30; no URL is in two
\* sections.
C1_SectionsBucketByUrl ==
    S.status = "returned" =>
      /\ \A l \in Range(S.rising) :
            /\ l.url \in TodayTopUrls \cap PrevTopUrls
            /\ l.kind = "up" /\ l.prev = PrevRank(l.url) /\ l.curr = TodayRank(l.url)
            /\ l.prev > l.curr
      /\ \A l \in Range(S.falling) :
            /\ l.url \in TodayTopUrls \cap PrevTopUrls
            /\ l.kind = "down" /\ l.prev = PrevRank(l.url) /\ l.curr = TodayRank(l.url)
            /\ l.curr > l.prev
      /\ \A l \in Range(S.newcomers) :
            /\ l.url \in TodayTopUrls /\ l.url \notin PrevTopUrls
            /\ l.kind = "NEW" /\ l.curr = TodayRank(l.url)
      /\ \A l \in Range(S.outs) :
            /\ l.url \in PrevTopUrls /\ l.url \notin TodayTopUrls
            /\ l.kind = "OUT" /\ l.prev = PrevRank(l.url)
      /\ NoRepeat(S.rising \o S.newcomers \o S.falling \o S.outs)

\* a run whose message has a line in each of the four sections
C1_Witness ==
    /\ S.status = "returned"
    /\ S.rising # <<>> /\ S.falling # <<>> /\ S.newcomers # <<>> /\ S.outs # <<>>

ShownName(u) == LET r == CHOOSE x \in Range(df_today) : x.url = u
                IN  SlackEscape(RemoveBrandFromTitle(r.product_name, r.brand))

\* u is not after v in the order of the rising (dir = 1) or falling (dir = -1)
\* section: larger change first, then smaller current rank, then smaller
\* previous rank, then name
NotAfter(u, v, dir) ==
    LET cu == dir * (PrevRank(u) - TodayRank(u))
        cv == dir * (PrevRank(v) - TodayRank(v))
    IN  \/ cu > cv
        \/ cu = cv /\ TodayRank(u) < TodayRank(v)
        \/ cu = cv /\ TodayRank(u) = TodayRank(v) /\ PrevRank(u) < PrevRank(v)
        \/ cu = cv /\ TodayRank(u) = TodayRank(v) /\ PrevRank(u) = PrevRank(v)
             /\ ~NameLess(ShownName(v), ShownName(u))

\* sec lists the first cap members of the set U in the given order
FirstOf(sec, U, cap, dir) ==
    /\ Len(sec) = IF Cardinality(U) < cap THEN Cardinality(U) ELSE cap
    /\ SectionUrls(sec) \subseteq U
    /\ NoRepeat(sec)
    /\ \A i, j \in DOMAIN sec : i < j => NotAfter(sec[i].url, sec[j].url, dir)
    /\ \A i \in DOMAIN sec : \A u \in U \ SectionUrls(sec) : NotAfter(sec[i].url, u, dir)

\* C2: the rising section is the first 3 improved products by improvement
\* descending, current rank, previous rank, name; the falling section the
\* first 5 worsened products by drop descending with the same tie-breaks; the
\* newcomers section the first 3 new products by current rank ascending.
C2_SectionsOrderedAndCapped ==
    S.status = "returned" =>
      /\ FirstOf(S.rising, ImprovedUrls, 3, 1)
      /\ FirstOf(S.falling, WorsenedUrls, 5, -1)
      /\ Len(S.newcomers) = IF Cardinality(FreshUrls) < 3 THEN Cardinality(FreshUrls) ELSE 3
      /\ SectionUrls(S.newcomers) \subseteq FreshUrls
      /\ NoRepeat(S.newcomers)
      /\ \A i, j \in DOMAIN S.newcomers : i < j => S.newcomers[i].curr < S.newcomers[j].curr
      /\ \A l \in Range(S.newcomers) : \A u \in FreshUrls \ SectionUrls(S.newcomers) :
            l.curr < TodayRank(u)

\* more products improved than the rising section holds, with a tie in the
\* improvement among those listed
C2_Witness ==
    /\ S.status = "returned"
    /\ Cardinality(ImprovedUrls) > 3
    /\ Len(S.rising) = 3
    /\ S.rising[1].delta = S.rising[2].delta

\* a run with more worsened products than the falling section holds
C2_WitnessFalling ==
    /\ S.status = "returned"
    /\ Cardinality(WorsenedUrls) > 5
    /\ Len(S.falling) = 5

\* C3: build_sections returns its sections, whatever brand, price or discount
\* is missing in the rows of the two frames.
C3_NoCrashOnMissingFields == S.status # "TypeError"

\* C9: a product of the previous top 30 that today is listed below rank 30 has
\* an OUT line, a product listed below rank 30 before and in today's top 30
\* has a NEW line, and inout_count counts both.
C9_Top30Only ==
    S.status # "pending" =>
      /\ S.status = "returned"
      /\ \A u \in PrevTopUrls :
            (\E r \in Range(df_today) : r.url = u /\ r.rank > 30)
              => \E l \in Range(S.outs) : l.url = u /\ l.kind = "OUT"
      /\ \A u \in TodayTopUrls :
            (\E r \in PrevRows : r.url = u /\ r.rank > 30)
              => \E l \in Range(S.newcomers) : l.url = u /\ l.kind = "NEW"
      /\ S.inout_count = Cardinality(FreshUrls \cup GoneUrls)

\* C19: inout_count is the number of URLs that are in exactly one of today's
\* top-30 set and the previous top-30 set, however many newcomer lines are
\* shown, and the OUT section has exactly one line for every URL that left the
\* top 30.
C19_InoutCountAndOutLines ==
    S.status # "pending" =>
        /\ S.status = "returned"
        /\ S.inout_count = Cardinality(FreshUrls) + Cardinality(GoneUrls)
        /\ SectionUrls(S.outs) = GoneUrls
        /\ Len(S.outs) = Cardinality(GoneUrls)

(***************************************************************************)
(* Google Drive: the files of the account.  A file has an id, a name, one  *)
(* parent folder, the trashed flag and its content.                        *)
(***************************************************************************)
\* GDRIVE_FOLDER_ID
FolderId == "folder"

\* build_filename(d)
BuildFilename(d) == <<"ranking", d, ".csv">>

\* the pages the site can serve: the order of the products on the page
PageVariants == {1, 2}

\* the content of a saved snapshot: its date column and the page it came from
Contents == [date : 1..MaxDay, page : PageVariants]

\* files().list(q="name = '<name>' and '<folder>' in parents and trashed = false")
DriveList(d, folder, name) ==
    {f \in d : f.name = name /\ f.parent = folder /\ ~f.trashed}

\* files().update(fileId=id, media_body=...)
DriveUpdate(d, id, content) ==
    {IF f.id = id THEN [f EXCEPT !.content = content] ELSE f : f \in d}

\* files().create(body={name, parents: [folder]}, media_body=...)
DriveCreate(d, id, folder, name, content) ==
    d \cup {[id |-> id, name |-> name, parent |-> folder, trashed |-> FALSE,
             content |-> content]}

\* an upload that creates the file without looking for the name
DriveUploadCsv_AlwaysCreate(d, nid, folder, name, content, d2, nid2) ==
    d2 = DriveCreate(d, nid, folder, name, content) /\ nid2 = nid + 1

\* drive_upload_csv(service, folder, name, df): the files d2 and the next free
\* id nid2 it leaves.  files[0] is whichever match the listing puts first.
DriveUploadCsv(d, nid, folder, name, content, d2, nid2) ==
    IF DriveList(d, folder, name) # {}
      THEN \E f \in DriveList(d, folder, name) :
              d2 = DriveUpdate(d, f.id, content) /\ nid2 = nid
      ELSE d2 = DriveCreate(d, nid, folder, name, content) /\ nid2 = nid + 1

\* drive_download_csv(service, folder, name): the contents it can return
\* ({} stands for None, no file of that name)
DriveDownloadCsv(d, folder, name) == {f.content : f \in DriveList(d, folder, name)}

NoUpload == [name |-> <<>>, existed |-> FALSE, before |-> 0]

\* the files of the folder that a listing shows
Shown(d) == {f \in d : f.parent = FolderId /\ ~f.trashed}

\* files the uploads never touch: trashed ones and ones of another folder
Decoys ==
    {[id |-> 100 + day, name |-> BuildFilename(day), parent |-> FolderId, trashed |-> TRUE,
      content |-> [date |-> day, page |-> 1]] : day \in 1..MaxDay}
    \cup {[id |-> 200 + day, name |-> BuildFilename(day), parent |-> "other", trashed |-> FALSE,
           content |-> [date |-> day, page |-> 1]] : day \in 1..MaxDay}

\* a folder with at most one file per name
InitialFolders ==
    {{[id |-> day, name |-> BuildFilename(day), parent |-> FolderId, trashed |-> FALSE,
       content |-> [date |-> day, page |-> 1]] : day \in D} : D \in SUBSET (1..MaxDay)}

DriveIdle == drive = {} /\ nextId = MaxDay + 1 /\ up = NoUpload

DriveInit ==
    /\ \E live \in InitialFolders : \E decoys \in {{}, Decoys} : drive = live \cup decoys
    /\ nextId = MaxDay + 1
    /\ up = NoUpload

\* one call of drive_upload_csv
Upload ==
    \E day \in 1..MaxDay : \E c \in {x \in Contents : x.date = day} :
       /\ DriveUploadCsv(drive, nextId, FolderId, BuildFilename(day), c, drive', nextId')
       /\ up' = [name |-> BuildFilename(day),
                 existed |-> DriveList(drive, FolderId, BuildFilename(day)) # {},
                 before |-> Cardinality(Shown(drive))]
       /\ UNCHANGED <<secVars, appVars, postVars, utilVars, priceVars, credVars, notifyVars>>

DriveNext == Upload

\* C7: an upload updates the file of that name when the folder shows one and
\* creates a file only otherwise: the folder never shows two files of one
\* name, and an upload of a name it shows leaves the number of files as it was.
C7_OneFilePerName ==
    /\ \A f, g \in Shown(drive) : f.name = g.name => f = g
    /\ up # NoUpload =>
          /\ \E f \in Shown(drive) : f.name = up.name
          /\ Cardinality(Shown(drive)) = IF up.existed THEN up.before ELSE up.before + 1
          /\ Cardinality(drive) - Cardinality(Shown(drive)) \in {0, Cardinality(Decoys)}

\* a name was uploaded again, next to a trashed file of the same name
C7_Witness ==
    /\ up # NoUpload /\ up.existed
    /\ \E f \in drive : f.name = up.name /\ f.trashed
    /\ \E f \in Shown(drive) : f.name = up.name /\ f.id <= MaxDay /\ f.content.page = 2

(***************************************************************************)
(* Slack webhook                                                           *)
(***************************************************************************)
HttpStatuses == {200, 302, 404, 500}

\* what a POST to the webhook ends in: a response with a status code, or no
\* response at all (connection error, timeout), which the HTTP client raises
WebhookReplies ==
    {[kind |-> "response", code |-> c] : c \in HttpStatuses}
    \cup {[kind |-> "error", code |-> 0]}

\* app.slack_post(text) with SLACK_WEBHOOK_URL set or not: whether it raises,
\* whether the request reached the webhook, and what it prints
AppSlackPost(urlSet, reply) ==
    IF ~urlSet
      THEN [raised |-> FALSE, posted |-> FALSE, code |-> 0, log |-> <<"webhook unset", "text">>]
    ELSE IF reply.kind = "error"
      THEN [raised |-> TRUE, posted |-> FALSE, code |-> 0, log |-> <<>>]
    ELSE [raised |-> FALSE, posted |-> TRUE, code |-> reply.code,
          log |-> IF reply.code >= 300 THEN <<"Slack failed">> ELSE <<>>]

(***************************************************************************)
(* app.py: one run of the job after the other.  The clock is the KST date; *)
(* it moves on by itself, also while a run is under way.                   *)
(***************************************************************************)
\* the products of a page, in page order
PageUrls(page) ==
    IF page = 1 THEN SubSeq(UrlList, 1, MinItems)
    ELSE <<UrlList[MinItems + 2]>> \o SubSeq(UrlList, 1, 2) \o SubSeq(UrlList, 4, MinItems)

\* the result of a fetch: the first n products of a page
NoResult == [status |-> "none", n |-> 0, page |-> 1, path |-> "", sniffed |-> FALSE]

Products(res) == Take(Listing(PageUrls(res.page), 0), res.n)

\* the counts a parse that found too few products can end with
FewCounts == {0, MinItems - 1}

\* fetch_by_http(): raises (request error, raise_for_status), or returns what
\* parse_cards_from_html found
HttpOutcomes ==
    {[status |-> "raised", n |-> 0, page |-> 1, path |-> "http", sniffed |-> FALSE]}
    \cup {[status |-> "ok", n |-> n, page |-> 1, path |-> "http", sniffed |-> FALSE] : n \in FewCounts}
    \cup {[status |-> "ok", n |-> Len(PageUrls(v)), page |-> v, path |-> "http", sniffed |-> FALSE] :
            v \in PageVariants}

\* try_once(...): raises (page.goto), returns at least MinItems products found
\* in the DOM, in the re-parsed HTML or in a sniffed JSON, or returns [] with
\* the debug data; sniffed: whether a JSON response was recorded on the way
TryOnceOutcomes ==
    {[status |-> "raised", n |-> 0, page |-> 1, path |-> "goto", sniffed |-> FALSE]}
    \cup {[status |-> "ok", n |-> 0, page |-> 1, path |-> "fail", sniffed |-> b] : b \in BOOLEAN}
    \cup {[status |-> "ok", n |-> Len(PageUrls(v)), page |-> v, path |-> p, sniffed |-> p = "json"] :
            v \in PageVariants, p \in {"dom", "html", "json"}}

NoContent == [date |-> 0, page |-> 1]

NoAsk == [name |-> <<>>, found |-> FALSE, why |-> "none", content |-> NoContent]

RunLocalsInit ==
    /\ date_str = 0 /\ ymd_yesterday = 0
    /\ http = NoResult /\ kr = NoResult /\ us = NoResult
    /\ open = {} /\ launches = <<>> /\ debug = {}
    /\ items = NoResult /\ fetched = "none"
    /\ localCsv = {} /\ asked = NoAsk /\ posts = <<>>
    /\ mainRet = "none" /\ exitCode = 0 - 1

AppIdle == clock = 1 /\ pc = "idle" /\ RunLocalsInit

AppInit == AppIdle /\ SecIdle /\ DriveIdle

\* midnight (KST) passes
Tick ==
    /\ clock < MaxDay
    /\ clock' = clock + 1
    /\ UNCHANGED <<pc, date_str, ymd_yesterday, http, kr, us, open, launches, debug,
                   items, fetched, localCsv, asked, posts, mainRet, exitCode>>
    /\ UNCHANGED <<secVars, driveVars>>
    /\ UNCHANGED <<postVars, utilVars, priceVars, credVars, notifyVars>>

\* the scheduler starts the script: a fresh process
StartRun ==
    /\ pc \in {"idle", "exit"}
    /\ pc' = "today"
    /\ date_str' = 0 /\ ymd_yesterday' = 0
    /\ http' = NoResult /\ kr' = NoResult /\ us' = NoResult
    /\ open' = {} /\ launches' = <<>> /\ debug' = {}
    /\ items' = NoResult /\ fetched' = "none"
    /\ localCsv' = {} /\ asked' = NoAsk /\ posts' = <<>>
    /\ mainRet' = "running" /\ exitCode' = 0 - 1
    /\ df_today' = <<>> /\ df_prev' = DfNone /\ S' = PendingSections
    /\ UNCHANGED <<clock, driveVars>>
    /\ UNCHANGED <<postVars, utilVars, priceVars, credVars, notifyVars>>

\* main: date_str = today_kst_str()
ReadToday ==
    /\ pc = "today"
    /\ date_str' = clock
    /\ pc' = "yesterday"
    /\ UNCHANGED <<clock, ymd_yesterday, http, kr, us, open, launches, debug, items,
                   fetched, localCsv, asked, posts, mainRet, exitCode>>
    /\ UNCHANGED <<secVars, driveVars>>
    /\ UNCHANGED <<postVars, utilVars, priceVars, credVars, notifyVars>>

\* main: ymd_yesterday = yesterday_kst_str(), a second reading of the clock
ReadYesterday ==
    /\ pc = "yesterday"
    /\ ymd_yesterday' = clock - 1
    /\ pc' = "http"
    /\ UNCHANGED <<clock, date_str, http, kr, us, open, launches, debug, items,
                   fetched, localCsv, asked, posts, mainRet, exitCode>>
    /\ UNCHANGED <<secVars, driveVars>>
    /\ UNCHANGED <<postVars, utilVars, priceVars, credVars, notifyVars>>

\* fetch_products that trusts any HTTP result that did not raise
HttpSuffices_AnyCount(r) == r.status = "ok"

\* fetch_products: whether the result of fetch_by_http is returned as it is
HttpSuffices(r) == r.status = "ok" /\ r.n >= MinItems

\* main without the check of the number of products
TooFew_Never(res) == res.n < 0

\* main: if len(items) < 10
TooFew(res) == res.n < MinItems

\* fetch_by_playwright that returns whatever the KR attempt found
KrSuffices_Always(r) == r.n >= 0

\* fetch_by_playwright: whether the KR result is returned as it is
KrSuffices(r) == r.n >= MinItems

\* fetch_products: 1) HTTP
FetchByHttp ==
    /\ pc = "http"
    /\ \E r \in HttpOutcomes :
          /\ http' = r
          /\ IF HttpSuffices(r)
               THEN items' = r /\ fetched' = "returned" /\ pc' = "fetched"
               ELSE pc' = "kr_launch" /\ UNCHANGED <<items, fetched>>
    /\ UNCHANGED <<clock, date_str, ymd_yesterday, kr, us, open, launches, debug,
                   localCsv, asked, posts, mainRet, exitCode>>
    /\ UNCHANGED <<secVars, driveVars>>
    /\ UNCHANGED <<postVars, utilVars, priceVars, credVars, notifyVars>>

\* try_once("KR", ...): p.chromium.launch(...)
LaunchKR ==
    /\ pc = "kr_launch"
    /\ open' = open \cup {"KR"}
    /\ launches' = Append(launches, "KR")
    /\ pc' = "kr_page"
    /\ UNCHANGED <<clock, date_str, ymd_yesterday, http, kr, us, debug, items, fetched,
                   localCsv, asked, posts, mainRet, exitCode>>
    /\ UNCHANGED <<secVars, driveVars>>
    /\ UNCHANGED <<postVars, utilVars, priceVars, credVars, notifyVars>>

\* try_once("US", ...): p.chromium.launch(...)
LaunchUS ==
    /\ pc = "us_launch"
    /\ open' = open \cup {"US"}
    /\ launches' = Append(launches, "US")
    /\ pc' = "us_page"
    /\ UNCHANGED <<clock, date_str, ymd_yesterday, http, kr, us, debug, items, fetched,
                   localCsv, asked, posts, mainRet, exitCode>>
    /\ UNCHANGED <<secVars, driveVars>>
    /\ UNCHANGED <<postVars, utilVars, priceVars, credVars, notifyVars>>

\* a try_once whose failure path returns without closing
LeftOpen_OnFailure(region, r) == IF r.path = "fail" THEN {region} ELSE {}

\* try_once: the browsers a way out leaves open: context.close() and
\* browser.close() stand before each return, and leaving the
\* "with sync_playwright()" block on an exception stops the browser as well
LeftOpen(region, r) == {}

\* try_once("KR", ...): every way out closes the context and the browser
TryOnceKR ==
    /\ pc = "kr_page"
    /\ \E r \in TryOnceOutcomes :
          /\ kr' = r
          /\ open' = (open \ {"KR"}) \cup LeftOpen("KR", r)
          /\ IF r.status = "raised"
               THEN fetched' = "raised" /\ pc' = "fetched" /\ UNCHANGED items
             ELSE IF KrSuffices(r)
               THEN items' = r /\ fetched' = "returned" /\ pc' = "fetched"
             ELSE pc' = "us_launch" /\ UNCHANGED <<items, fetched>>
    /\ UNCHANGED <<clock, date_str, ymd_yesterday, http, us, launches, debug,
                   localCsv, asked, posts, mainRet, exitCode>>
    /\ UNCHANGED <<secVars, driveVars>>
    /\ UNCHANGED <<postVars, utilVars, priceVars, credVars, notifyVars>>

\* try_once("US", ...)
TryOnceUS ==
    /\ pc = "us_page"
    /\ \E r \in TryOnceOutcomes :
          /\ us' = r
          /\ open' = (open \ {"US"}) \cup LeftOpen("US", r)
          /\ IF r.status = "raised"
               THEN fetched' = "raised" /\ pc' = "fetched"
               ELSE pc' = "debug" /\ UNCHANGED fetched
    /\ UNCHANGED <<clock, date_str, ymd_yesterday, http, kr, launches, debug, items,
                   localCsv, asked, posts, mainRet, exitCode>>
    /\ UNCHANGED <<secVars, driveVars>>
    /\ UNCHANGED <<postVars, utilVars, priceVars, credVars, notifyVars>>

\* the files fetch_by_playwright writes under data/debug for one attempt
DebugFiles(res, tag) ==
    (IF res.path = "fail" THEN {<<tag, "html">>, <<tag, "png">>} ELSE {})
    \cup (IF res.sniffed THEN {<<tag, "json">>} ELSE {})

\* fetch_by_playwright after the US attempt: debug files, return items
WriteDebug ==
    /\ pc = "debug"
    /\ debug' = DebugFiles(kr, "kr") \cup DebugFiles(us, "us")
    /\ items' = us
    /\ fetched' = "returned"
    /\ pc' = "fetched"
    /\ UNCHANGED <<clock, date_str, ymd_yesterday, http, kr, us, open, launches,
                   localCsv, asked, posts, mainRet, exitCode>>
    /\ UNCHANGED <<secVars, driveVars>>
    /\ UNCHANGED <<postVars, utilVars, priceVars, credVars, notifyVars>>

\* one call of slack_post from main: the entry it leaves in posts
PostEntries(text) ==
    {[text |-> text] @@ AppSlackPost(urlSet, reply) :
        urlSet \in BOOLEAN, reply \in WebhookReplies}

\* main: the exception of fetch_products goes up
MainFetchRaised ==
    /\ pc = "fetched" /\ fetched = "raised"
    /\ mainRet' = "raised"
    /\ pc' = "handler"
    /\ UNCHANGED <<clock, date_str, ymd_yesterday, http, kr, us, open, launches, debug,
                   items, fetched, localCsv, asked, posts, exitCode>>
    /\ UNCHANGED <<secVars, driveVars>>
    /\ UNCHANGED <<postVars, utilVars, priceVars, credVars, notifyVars>>

\* main: fewer than MinItems products: header-only CSV, failure notice, return
MainTooFew ==
    /\ pc = "fetched" /\ fetched = "returned"
    /\ TooFew(items)
    /\ localCsv' = localCsv \cup {[date |-> date_str, kind |-> "header"]}
    /\ \E e \in PostEntries("collection failed") :
          /\ posts' = Append(posts, e)
          /\ IF e.raised
               THEN mainRet' = "raised" /\ pc' = "handler" /\ UNCHANGED exitCode
               ELSE mainRet' = "returned" /\ pc' = "exit" /\ exitCode' = 0
    /\ UNCHANGED <<clock, date_str, ymd_yesterday, http, kr, us, open, launches, debug,
                   items, fetched, asked>>
    /\ UNCHANGED <<secVars, driveVars>>
    /\ UNCHANGED <<postVars, utilVars, priceVars, credVars, notifyVars>>

\* main: df_today = to_dataframe(items, date_str), saved under data/
\* (the frame of fetch_products is gone: its locals are forgotten)
MainSave ==
    /\ pc = "fetched" /\ fetched = "returned"
    /\ ~TooFew(items)
    /\ df_today' = Products(items)
    /\ localCsv' = localCsv \cup {[date |-> date_str, kind |-> "rows"]}
    /\ http' = NoResult /\ kr' = NoResult /\ us' = NoResult
    /\ launches' = <<>> /\ debug' = {}
    /\ pc' = "drive_upload"
    /\ UNCHANGED <<clock, date_str, ymd_yesterday, open, items, fetched, asked, posts,
                   mainRet, exitCode>>
    /\ UNCHANGED <<df_prev, S, driveVars>>
    /\ UNCHANGED <<postVars, utilVars, priceVars, credVars, notifyVars>>

Asked(found, why, content) ==
    [name |-> BuildFilename(ymd_yesterday), found |-> found, why |-> why,
     content |-> content]

\* main: GDRIVE_FOLDER_ID unset, or build_drive_service / drive_upload_csv raise
DriveUnavailable ==
    /\ pc = "drive_upload"
    /\ \E why \in {"no folder", "drive error"} : asked' = Asked(FALSE, why, NoContent)
    /\ df_prev' = DfNone
    /\ pc' = "sections"
    /\ UNCHANGED <<clock, date_str, ymd_yesterday, http, kr, us, open, launches, debug,
                   items, fetched, localCsv, posts, mainRet, exitCode>>
    /\ UNCHANGED <<df_today, S, driveVars>>
    /\ UNCHANGED <<postVars, utilVars, priceVars, credVars, notifyVars>>

\* main: drive_upload_csv(svc, folder, file_today, df_today)
MainUpload ==
    /\ pc = "drive_upload"
    /\ DriveUploadCsv(drive, nextId, FolderId, BuildFilename(date_str),
                      [date |-> date_str, page |-> items.page], drive', nextId')
    /\ up' = [name |-> BuildFilename(date_str),
              existed |-> DriveList(drive, FolderId, BuildFilename(date_str)) # {},
              before |-> Cardinality(Shown(drive))]
    /\ pc' = "drive_download"
    /\ UNCHANGED <<clock, date_str, ymd_yesterday, http, kr, us, open, launches, debug,
                   items, fetched, localCsv, asked, posts, mainRet, exitCode>>
    /\ UNCHANGED secVars
    /\ UNCHANGED <<postVars, utilVars, priceVars, credVars, notifyVars>>

\* main: df_prev = drive_download_csv(svc, folder, file_yesterday)
MainDownload ==
    /\ pc = "drive_download"
    /\ \/ /\ asked' = Asked(FALSE, "drive error", NoContent)
          /\ df_prev' = DfNone
       \/ /\ DriveDownloadCsv(drive, FolderId, BuildFilename(ymd_yesterday)) = {}
          /\ asked' = Asked(FALSE, "not found", NoContent)
          /\ df_prev' = DfNone
       \/ \E c \in DriveDownloadCsv(drive, FolderId, BuildFilename(ymd_yesterday)) :
             /\ asked' = Asked(TRUE, "file", c)
             /\ df_prev' = Downloaded(Listing(PageUrls(c.page), 0))
    /\ pc' = "sections"
    /\ UNCHANGED <<clock, date_str, ymd_yesterday, http, kr, us, open, launches, debug,
                   items, fetched, localCsv, posts, mainRet, exitCode>>
    /\ UNCHANGED <<df_today, S, driveVars>>
    /\ UNCHANGED <<postVars, utilVars, priceVars, credVars, notifyVars>>

\* main: S = build_sections(df_today, df_prev)
MainBuildSections ==
    /\ pc = "sections"
    /\ S' = BuildSections(df_today, df_prev)
    /\ IF S'.status = "TypeError"
         THEN mainRet' = "raised" /\ pc' = "handler"
         ELSE pc' = "post" /\ UNCHANGED mainRet
    /\ UNCHANGED <<clock, date_str, ymd_yesterday, http, kr, us, open, launches, debug,
                   items, fetched, localCsv, asked, posts, exitCode>>
    /\ UNCHANGED <<df_today, df_prev, driveVars>>
    /\ UNCHANGED <<postVars, utilVars, priceVars, credVars, notifyVars>>

\* main: slack_post(build_slack_message(date_str, S)), return
MainPost ==
    /\ pc = "post"
    /\ \E e \in PostEntries("ranking") :
          /\ posts' = Append(posts, e)
          /\ IF e.raised
               THEN mainRet' = "raised" /\ pc' = "handler" /\ UNCHANGED exitCode
               ELSE mainRet' = "returned" /\ pc' = "exit" /\ exitCode' = 0
    /\ UNCHANGED <<clock, date_str, ymd_yesterday, http, kr, us, open, launches, debug,
                   items, fetched, localCsv, asked>>
    /\ UNCHANGED <<secVars, driveVars>>
    /\ UNCHANGED <<postVars, utilVars, priceVars, credVars, notifyVars>>

\* __main__: except Exception: report, try slack_post(...) except: pass
Handler ==
    /\ pc = "handler"
    /\ \E e \in PostEntries("job failed") : posts' = Append(posts, e)
    /\ exitCode' = 0
    /\ pc' = "exit"
    /\ UNCHANGED <<clock, date_str, ymd_yesterday, http, kr, us, open, launches, debug,
                   items, fetched, localCsv, asked, mainRet>>
    /\ UNCHANGED <<secVars, driveVars>>
    /\ UNCHANGED <<postVars, utilVars, priceVars, credVars, notifyVars>>

AppNext ==
    \/ Tick \/ StartRun \/ ReadToday \/ ReadYesterday
    \/ FetchByHttp \/ LaunchKR \/ TryOnceKR \/ LaunchUS \/ TryOnceUS \/ WriteDebug
    \/ MainFetchRaised \/ MainTooFew \/ MainSave
    \/ DriveUnavailable \/ MainUpload \/ MainDownload
    \/ MainBuildSections \/ MainPost \/ Handler

(***************************************************************************)
(* C4, C5, C8: the runs of app.py                                          *)
(***************************************************************************)
InBrowserFallback == pc \in {"kr_launch", "kr_page", "us_launch", "us_page", "debug"}

\* the attempt fetch_by_playwright ended with
LastAttempt == IF us.status # "none" THEN us ELSE kr

\* C4: fetch_products asks over HTTP first; the browser is never started
\* exactly when the HTTP fetch raised nothing and parsed at least 10 products,
\* and then the HTTP result is returned; otherwise fetch_by_playwright runs
\* and fetch_products ends as it ends (its list returned, its exception raised).
C4_HttpFirstBrowserFallback ==
    /\ (InBrowserFallback \/ launches # <<>>) =>
          http.status # "none" /\ ~(http.status = "ok" /\ http.n >= 10)
    /\ pc = "fetched" =>
          /\ http.status # "none"
          /\ launches = <<>> <=> (http.status = "ok" /\ http.n >= 10)
          /\ launches = <<>> => fetched = "returned" /\ items = http
          /\ launches # <<>> =>
                /\ launches[1] = "KR"
                /\ fetched = "raised" <=> LastAttempt.status = "raised"
                /\ fetched = "returned" => items = LastAttempt

\* HTTP parsed 9 products, the browser ran for KR and US, the US list is returned
C4_Witness ==
    /\ pc = "fetched"
    /\ http.status = "ok" /\ http.n = 9
    /\ launches = <<"KR", "US">>
    /\ fetched = "returned" /\ items = us /\ items.n >= 10

\* C14: the browser attempts of one fetch are KR, then at most US; US is
\* started only after KR returned fewer than 10 products; the KR result is
\* returned when it has at least 10 products and the US result otherwise;
\* debug files are written only when the KR attempt failed.
C14_KrThenUs ==
    /\ launches \in {<<>>, <<"KR">>, <<"KR", "US">>}
    /\ Len(launches) = 2 => kr.status = "ok" /\ kr.n < 10
    /\ us.status # "none" => Len(launches) = 2
    /\ (pc = "fetched" /\ fetched = "returned" /\ launches # <<>>) =>
          /\ kr.status = "ok"
          /\ IF kr.n >= 10 THEN items = kr /\ launches = <<"KR">>
                           ELSE items = us /\ launches = <<"KR", "US">>
    /\ debug # {} => kr.status = "ok" /\ kr.n < 10 /\ kr.path = "fail"

\* KR found nothing, US found the products through a sniffed JSON; the KR
\* page and screenshot and the US JSON are among the debug files
C14_Witness ==
    /\ pc = "fetched" /\ fetched = "returned"
    /\ launches = <<"KR", "US">> /\ kr.n = 0 /\ us.path = "json" /\ items = us
    /\ debug = {<<"kr", "html">>, <<"kr", "png">>, <<"us", "json">>}

\* C15: a browser is open only while its attempt runs: never two at a time,
\* KR closed before US is launched, none once fetch_by_playwright is over,
\* on each of the ways out of try_once.
C15_BrowserClosedBeforeReturn ==
    /\ Cardinality(open) <= 1
    /\ open = IF pc = "kr_page" THEN {"KR"} ELSE IF pc = "us_page" THEN {"US"} ELSE {}

\* the US browser is open after a KR attempt that failed and was closed
C15_Witness ==
    /\ pc = "us_page" /\ open = {"US"}
    /\ kr.status = "ok" /\ kr.path = "fail" /\ launches = <<"KR", "US">>

\* the collection of this run ended with fewer than 10 products
CollectedTooFew ==
    pc \in {"handler", "exit"} /\ fetched = "returned" /\ items.n < 10

\* C5: with fewer than 10 products main writes a header-only CSV named for
\* the date it read, hands the failure notice to slack_post, builds and posts
\* no summary and touches no Drive file of this run; it returns normally
\* unless the webhook request itself raised, and the exit code is 0 either way.
C5_TooFewHeaderOnlyNotice ==
    CollectedTooFew =>
        /\ localCsv = {[date |-> date_str, kind |-> "header"]}
        /\ Len(posts) >= 1 /\ posts[1].text = "collection failed"
        /\ \A i \in 1..Len(posts) : posts[i].text # "ranking"
        /\ S = PendingSections /\ asked = NoAsk
        /\ mainRet = "returned" <=> ~posts[1].raised
        /\ mainRet = "returned" => Len(posts) = 1
        /\ pc = "exit" => exitCode = 0

\* C5 as stated: main returns normally whenever it collected too few products
C5_AlwaysReturnsNormally == CollectedTooFew => mainRet = "returned"

\* HTTP and both browser attempts found too little, the notice reached the
\* webhook, main returned, exit code 0
C5_Witness ==
    /\ CollectedTooFew /\ pc = "exit" /\ launches = <<"KR", "US">>
    /\ Len(posts) = 1 /\ posts[1].posted /\ posts[1].code = 200
    /\ mainRet = "returned" /\ exitCode = 0

\* C8: a run that read KST date D asks Drive for the file named for D-1 only:
\* what it diffs against is that file's snapshot of D-1, or nothing.
C8_DiffsAgainstDayBeforeOnly ==
    asked # NoAsk =>
        /\ asked.name = BuildFilename(date_str - 1)
        /\ asked.found => asked.content.date = date_str - 1
        /\ ~asked.found => df_prev = DfNone

(***************************************************************************)
(* C6: the three places that post to the Slack webhook                     *)
(***************************************************************************)
\* slack_notify.post_slack(text)
PostSlack(urlSet, reply) ==
    IF ~urlSet
      THEN [raised |-> FALSE, posted |-> FALSE, code |-> 0, log |-> <<"webhook unset", "text">>]
    ELSE IF reply.kind = "error"
      THEN [raised |-> TRUE, posted |-> FALSE, code |-> 0, log |-> <<>>]
    ELSE [raised |-> reply.code >= 400 /\ reply.code < 600, posted |-> TRUE,
          code |-> reply.code, log |-> <<>>]

\* main.run: the webhook call through urllib inside try/except
RunWebhook(urlSet, reply) ==
    IF ~urlSet
      THEN [raised |-> FALSE, posted |-> FALSE, code |-> 0, log |-> <<"skipped">>]
    ELSE IF reply.kind = "error"
      THEN [raised |-> FALSE, posted |-> FALSE, code |-> 0, log |-> <<"failed">>]
    ELSE [raised |-> FALSE, posted |-> TRUE, code |-> reply.code,
          log |-> IF reply.code >= 200 /\ reply.code < 300 THEN <<"sent">> ELSE <<"failed">>]

MaxCalls == 2

PostIdle == calls = <<>>

Call(fn, urlSet, reply, out) ==
    [fn |-> fn, urlSet |-> urlSet, reply |-> reply, ended |-> IF out.raised THEN "raised" ELSE "returned"]
    @@ out

\* app.main: slack_post(...)
CallAppSlackPost ==
    /\ Len(calls) < MaxCalls
    /\ \E urlSet \in BOOLEAN, reply \in WebhookReplies :
          calls' = Append(calls, Call("app.slack_post", urlSet, reply, AppSlackPost(urlSet, reply)))
    /\ UNCHANGED <<secVars, driveVars, appVars, utilVars, priceVars, credVars, notifyVars>>

\* slack_notify.main: post_slack(msg), then print("Sent Slack message.")
CallPostSlack ==
    /\ Len(calls) < MaxCalls
    /\ \E urlSet \in BOOLEAN, reply \in WebhookReplies :
          calls' = Append(calls, Call("slack_notify.post_slack", urlSet, reply, PostSlack(urlSet, reply)))
    /\ UNCHANGED <<secVars, driveVars, appVars, utilVars, priceVars, credVars, notifyVars>>

\* main.run: the optional Slack notice at its end
CallRunWebhook ==
    /\ Len(calls) < MaxCalls
    /\ \E urlSet \in BOOLEAN, reply \in WebhookReplies :
          calls' = Append(calls, Call("main.run", urlSet, reply, RunWebhook(urlSet, reply)))
    /\ UNCHANGED <<secVars, driveVars, appVars, utilVars, priceVars, credVars, notifyVars>>

PostNext == CallAppSlackPost \/ CallPostSlack \/ CallRunWebhook

\* C6: whatever status the webhook answers with, none of the three posting
\* steps raises.
C6_FireAndForget ==
    \A i \in 1..Len(calls) :
        calls[i].urlSet /\ calls[i].reply.kind = "response" => calls[i].ended = "returned"

(***************************************************************************)
(* C10: utils.compute_diffs_and_blocks                                     *)
(***************************************************************************)
UtilUrls == 3

\* a row of the frames utils.py works on
UtilRow(u, name, rank) == [url |-> u, brand |-> CatBrand(u), name |-> name, rank |-> rank]

\* the listing name of a product, and the name after the shop retitled it
ListedName(u) == CatTitle(u)

Retitled(u) == CatTitle(u) \o <<"Mist">>

\* url + "||" + brand + "||" + name
Key(r) == <<r.url, "||", r.brand, "||", r.name>>

Keys(df) == {Key(df[i]) : i \in 1..Len(df)}

Urls(df) == {df[i].url : i \in 1..Len(df)}

\* _rank_merge: today's rows, each with the rank of the previous row of the
\* same key (how="left": NoRank stands for the missing rank)
RankMerge(today, prev) ==
    [i \in 1..Len(today) |->
        [rank_today |-> today[i].rank, key |-> Key(today[i]), name |-> today[i].name,
         url |-> today[i].url,
         rank_prev |-> IF \E j \in 1..Len(prev) : Key(prev[j]) = Key(today[i])
                         THEN prev[CHOOSE j \in 1..Len(prev) : Key(prev[j]) = Key(today[i])].rank
                         ELSE NoRank]]

HasPrevRank(m) == m.rank_prev # NoRank

\* movers: the merged rows with a previous rank, with delta = prev - today
Movers(today, prev) ==
    LET kept == SelectSeq(RankMerge(today, prev), HasPrevRank)
    IN  [i \in 1..Len(kept) |-> kept[i] @@ [delta |-> kept[i].rank_prev - kept[i].rank_today]]

\* new_rankers: today's rows whose key no previous row has
NewRankers(today, prev) ==
    LET fresh(r) == Key(r) \notin Keys(prev) IN SelectSeq(today, fresh)

\* outs: the previous rows whose url is not among today's urls
OutRows(today, prev) ==
    LET gone(r) == r.url \notin Urls(today) IN SelectSeq(prev, gone)

\* head(10) of the movers sorted for the risers section
Up10Cap == 10

\* head(5) of the movers sorted for the fallers section
Down5Cap == 5

\* movers.sort_values("delta", ascending=...): the orders the sort may leave
\* the rows in (rows of equal delta in any order)
SortsByDelta(movers, ascending) ==
    LET n == Len(movers)
        ordered(q) ==
            /\ Len(q) = n
            /\ \A i \in 1..(n - 1) :
                  IF ascending THEN movers[q[i]].delta <= movers[q[i + 1]].delta
                               ELSE movers[q[i]].delta >= movers[q[i + 1]].delta
    IN  {[i \in 1..n |-> movers[q[i]]] : q \in {r \in InjSeqs(1..n, n) : ordered(r)}}

\* up10 = movers.sort_values("delta", ascending=False).head(10)
Up10s(movers) == {Take(s, Up10Cap) : s \in SortsByDelta(movers, FALSE)}

\* down5 = movers.sort_values("delta", ascending=True).head(5)
Down5s(movers) == {Take(s, Down5Cap) : s \in SortsByDelta(movers, TRUE)}

NoBlocks ==
    [status |-> "pending", movers |-> <<>>, up10 |-> <<>>, new_rankers |-> <<>>,
     down5 |-> <<>>, ins |-> 0, outs |-> 0]

\* the results compute_diffs_and_blocks may return
ComputeDiffsAndBlocks(today, prev) ==
    IF prev.isNone \/ prev.rows = <<>>
      THEN {[NoBlocks EXCEPT !.status = "no previous"]}
      ELSE {[status |-> "compared",
             movers |-> Movers(today, prev.rows),
             up10 |-> u,
             new_rankers |-> NewRankers(today, prev.rows),
             down5 |-> d,
             ins |-> Len(NewRankers(today, prev.rows)),
             outs |-> Len(OutRows(today, prev.rows))] :
                u \in Up10s(Movers(today, prev.rows)), d \in Down5s(Movers(today, prev.rows))}

UtilIdle == ut_today = <<>> /\ ut_prev = DfNone /\ B = NoBlocks

UtilSet == {UrlList[i] : i \in 1..UtilUrls}

\* the previous snapshot: listing names; today's: some products retitled
UtilPrevs ==
    {[i \in 1..Len(s) |-> UtilRow(s[i], ListedName(s[i]), i)] : s \in InjSeqs(UtilSet, UtilUrls)}

UtilTodays ==
    {[i \in 1..Len(s) |-> UtilRow(s[i], IF s[i] \in re THEN Retitled(s[i]) ELSE ListedName(s[i]), i)] :
        s \in InjSeqs(UtilSet, UtilUrls) \ {<<>>}, re \in SUBSET {UrlList[1]}}

UtilInit ==
    /\ ut_today \in UtilTodays
    /\ ut_prev \in {DfNone} \cup {DfOf(p) : p \in UtilPrevs}
    /\ B = NoBlocks

DoComputeDiffs ==
    /\ B.status = "pending"
    /\ B' \in ComputeDiffsAndBlocks(ut_today, ut_prev)
    /\ UNCHANGED <<ut_today, ut_prev>>
    /\ UNCHANGED <<secVars, driveVars, appVars, postVars, priceVars, credVars, notifyVars>>

UtilNext == DoComputeDiffs

\* C10: a product is the same product across the snapshots when its URL is:
\* every URL of both snapshots is among the movers and not among the new
\* rankers, and the in and out counts count URLs.
C10_IdentityByUrl ==
    B.status = "compared" =>
        /\ \A u \in Urls(ut_today) \cap Urls(ut_prev.rows) :
              /\ \E i \in 1..Len(B.movers) : B.movers[i].url = u
              /\ \A i \in 1..Len(B.new_rankers) : B.new_rankers[i].url # u
        /\ B.ins = Cardinality(Urls(ut_today) \ Urls(ut_prev.rows))
        /\ B.outs = Cardinality(Urls(ut_prev.rows) \ Urls(ut_today))

\* C18: the top risers section lists only products whose rank improved
\* (rank_prev > rank_today) and the top fallers section lists only products
\* whose rank worsened (rank_prev < rank_today).
C18_RisersRoseFallersFell ==
    B.status = "compared" =>
        /\ \A i \in 1..Len(B.up10) : B.up10[i].rank_prev > B.up10[i].rank_today
        /\ \A i \in 1..Len(B.down5) : B.down5[i].rank_prev < B.down5[i].rank_today

(***************************************************************************)
(* price_parser.py.  A price block, after _strip_noise, is a sequence of   *)
(* tokens: a word, a bare amount ("12.00"), an amount with the currency    *)
(* sign ("US$12.00"), a "Value:" label followed by an amount, or such a     *)
(* label and amount with letters right behind ("Value: 12.00USD"), where   *)
(* PLAIN_RE finds no word boundary.  Amounts are in cents.                 *)
(***************************************************************************)
MaxTokens == 3

\* 0.5 and 500 USD
MinCents == 50

MaxCents == 50000

\* None
NoPrice == 0 - 1

Amounts == {10, MinCents, 1500, MaxCents, 60000}

Tokens ==
    {[kind |-> "word", cents |-> 0]}
    \cup [kind : {"plain", "curr", "value", "value_glued"}, cents : Amounts]

Texts == UNION {[1..n -> Tokens] : n \in 0..MaxTokens}

IsCurr(t) == t.kind = "curr"

IsPlain(t) == t.kind \in {"plain", "curr", "value"}

IsValue(t) == t.kind \in {"value", "value_glued"}

Cents(toks) == [i \in DOMAIN toks |-> toks[i].cents]

\* a filter that keeps every amount
Plausible_Any(c) == c >= 0

\* 0.5 <= v <= 500
Plausible(c) == MinCents <= c /\ c <= MaxCents

\* _find_amounts: the CURR_RE matches in text order, then the PLAIN_RE
\* matches in text order (an amount behind a currency sign or a "Value:"
\* label is a PLAIN_RE match too), those in the plausible range
FindAmounts(text) ==
    SelectSeq(Cents(SelectSeq(text, IsCurr)) \o Cents(SelectSeq(text, IsPlain)), Plausible)

\* VALUE_RE.search(raw): the first match only; None when it is out of range
ValuePrice(text) ==
    LET vs == Cents(SelectSeq(text, IsValue))
    IN  IF vs # <<>> /\ Plausible(vs[1]) THEN vs[1] ELSE NoPrice

\* the first amount taken for the least
SeqMin_First(q) == q[1]

\* min(amounts)
SeqMin(q) == CHOOSE x \in Range(q) : \A y \in Range(q) : x <= y

\* max(amounts)
SeqMax(q) == CHOOSE x \in Range(q) : \A y \in Range(q) : x >= y

\* round((1 - current / original) * 100, 2), at least 0.0, in hundredths of
\* a percent
Discount(current, original) ==
    LET d == (20000 * (original - current) + original) \div (2 * original)
    IN  IF d > 0 THEN d ELSE 0

NoParse ==
    [status |-> "pending", price_current_usd |-> NoPrice, price_original_usd |-> NoPrice,
     discount_rate_pct |-> NoPrice, value_price_usd |-> NoPrice, has_value_price |-> FALSE]

ParsePricesAndDiscount(text) ==
    LET value_price == ValuePrice(text)
        amounts == FindAmounts(text)
        price_current ==
            IF value_price # NoPrice /\ amounts # <<>> THEN amounts[1]
            ELSE IF Len(amounts) >= 2 THEN SeqMin(amounts)
            ELSE IF Len(amounts) = 1 THEN amounts[1]
            ELSE NoPrice
        price_original ==
            IF value_price # NoPrice /\ amounts # <<>> THEN value_price
            ELSE IF Len(amounts) >= 2 THEN SeqMax(amounts)
            ELSE IF Len(amounts) = 1 THEN amounts[1]
            ELSE NoPrice
    IN  [status |-> "parsed",
         price_current_usd |-> price_current,
         price_original_usd |-> IF price_original # NoPrice THEN price_original ELSE price_current,
         discount_rate_pct |->
             IF price_current # NoPrice /\ price_original # NoPrice /\ price_original > 0
               THEN Discount(price_current, price_original) ELSE NoPrice,
         value_price_usd |-> value_price,
         has_value_price |-> value_price # NoPrice]

PriceIdle == price_text = <<>> /\ P = NoParse

PriceInit == price_text \in Texts /\ P = NoParse

DoParsePrices ==
    /\ P.status = "pending"
    /\ P' = ParsePricesAndDiscount(price_text)
    /\ UNCHANGED price_text
    /\ UNCHANGED <<secVars, driveVars, appVars, postVars, utilVars, credVars, notifyVars>>

PriceNext == DoParsePrices

\* the amounts of the text, in text order
TextAmounts == LET numeric(t) == t.kind # "word" IN Cents(SelectSeq(price_text, numeric))

InRange(c) == 50 <= c /\ c <= 50000

\* the "Value:" amounts of the text that are within 0.5..500
ValueAmounts ==
    {t.cents : t \in {x \in Range(price_text) :
                        x.kind \in {"value", "value_glued"} /\ InRange(x.cents)}}

\* C11: when the text has a "Value:" amount within 0.5..500, the original
\* price is a "Value:" amount of the text and the current price is the first
\* amount of the text.
C11_ValueIsOriginalFirstIsCurrent ==
    (P.status = "parsed" /\ ValueAmounts # {}) =>
        /\ P.price_original_usd \in ValueAmounts
        /\ P.price_current_usd = TextAmounts[1]

\* the amounts found: those standing as a word of their own (behind a
\* currency sign or a label or not), within 0.5..500
FoundAmounts ==
    {t.cents : t \in {x \in Range(price_text) :
                        x.kind \notin {"word", "value_glued"} /\ InRange(x.cents)}}

\* C12: with no "Value:" amount recognised the current price is the least
\* and the original price the greatest amount found (the same one when there
\* is one only); with no amount both are None and there is no discount.
C12_MinMaxWithoutValue ==
    (P.status = "parsed" /\ ~P.has_value_price) =>
        /\ FoundAmounts # {} =>
              /\ P.price_current_usd \in FoundAmounts
              /\ P.price_original_usd \in FoundAmounts
              /\ \A c \in FoundAmounts : P.price_current_usd <= c /\ c <= P.price_original_usd
              /\ P.discount_rate_pct >= 0
        /\ FoundAmounts = {} =>
              /\ P.price_current_usd = NoPrice /\ P.price_original_usd = NoPrice
              /\ P.discount_rate_pct = NoPrice

\* a sale price before a higher list price, no "Value:" label
C12_Witness ==
    /\ P.status = "parsed" /\ ~P.has_value_price
    /\ Len(price_text) = 3 /\ price_text[1].kind = "curr" /\ price_text[3].kind = "plain"
    /\ P.price_current_usd = 1500 /\ P.price_original_usd = 50000
    /\ P.discount_rate_pct = 9700

\* C20: every price of the result is None or within 0.5..500 USD, and
\* has_value_price is true exactly when value_price_usd is not None.
C20_PricesPlausible ==
    /\ \A v \in {P.price_current_usd, P.price_original_usd, P.value_price_usd} :
          v = NoPrice \/ (50 <= v /\ v <= 50000)
    /\ P.has_value_price <=> P.value_price_usd # NoPrice

\* a text with an amount above 500 USD, one of 500 USD and an implausible
\* "Value:" amount
C20_Witness ==
    /\ P.status = "parsed"
    /\ \E i, j \in DOMAIN price_text :
          /\ price_text[i].cents = 60000 /\ price_text[i].kind = "value"
          /\ price_text[j].cents = 60000 /\ price_text[j].kind = "curr"
    /\ P.price_original_usd = 50000 /\ ~P.has_value_price

(***************************************************************************)
(* gdrive_upload.py: upload_to_drive and the choice of credentials         *)
(***************************************************************************)
OAuthNames == {"GOOGLE_CLIENT_ID", "GOOGLE_CLIENT_SECRET", "GOOGLE_REFRESH_TOKEN"}

\* the environment: the OAuth variables that are set (non-blank), the two
\* service-account variables (unset, a valid key, or text that is no key),
\* whether the CSV exists and whether GDRIVE_FOLDER_ID is set
Envs ==
    [oauth : SUBSET OAuthNames,
     sa_b64 : {"unset", "valid", "malformed"},
     sa_json : {"unset", "valid", "malformed"},
     file : BOOLEAN, folder : BOOLEAN]

\* creds.refresh(Request()): succeeds, raises RefreshError (the token
\* endpoint refused), or raises another error (no connection)
RefreshOutcomes == {"ok", "RefreshError", "TransportError"}

NoCreds == [kind |-> "none", scopes |-> "none"]

\* _user_creds_from_env that asks for no refresh token
OAuthSet_IdAndSecret(e) == {"GOOGLE_CLIENT_ID", "GOOGLE_CLIENT_SECRET"} \subseteq e.oauth

\* if not (cid and csec and rtok): return None
OAuthSet(e) == e.oauth = OAuthNames

\* _sa_creds_from_env: js is the decoded GDRIVE_SA_JSON_B64 when that is set
SaSource(e) == IF e.sa_b64 # "unset" THEN e.sa_b64 ELSE e.sa_json

CredIdle ==
    /\ g_env = [oauth |-> {}, sa_b64 |-> "unset", sa_json |-> "unset", file |-> FALSE, folder |-> FALSE]
    /\ g_pc = "idle" /\ g_attempts = <<>> /\ g_creds = NoCreds /\ g_calls = 0

CredInit ==
    /\ g_env \in Envs
    /\ g_pc = "start" /\ g_attempts = <<>> /\ g_creds = NoCreds /\ g_calls = 0

\* upload_to_drive: the two checks before _get_creds
CheckArgs ==
    /\ g_pc = "start"
    /\ g_pc' = IF ~g_env.file \/ ~g_env.folder THEN "SystemExit" ELSE "user"
    /\ UNCHANGED <<g_env, g_attempts, g_creds, g_calls>>
    /\ UNCHANGED <<secVars, driveVars, appVars, postVars, utilVars, priceVars, notifyVars>>

\* _user_creds_from_env: the three variables
UserCredsFromEnv ==
    /\ g_pc = "user"
    /\ g_pc' = IF OAuthSet(g_env) THEN "refresh1" ELSE "sa"
    /\ UNCHANGED <<g_env, g_attempts, g_creds, g_calls>>
    /\ UNCHANGED <<secVars, driveVars, appVars, postVars, utilVars, priceVars, notifyVars>>

\* _user_creds_from_env: refresh with the scopes of the token
RefreshOriginal ==
    /\ g_pc = "refresh1"
    /\ \E r \in RefreshOutcomes :
          /\ g_attempts' = Append(g_attempts, [scopes |-> "original", outcome |-> r])
          /\ IF r = "ok"
               THEN g_creds' = [kind |-> "user", scopes |-> "original"] /\ g_pc' = "build"
             ELSE IF r = "RefreshError"
               THEN g_pc' = "refresh2" /\ UNCHANGED g_creds
             ELSE g_pc' = r /\ UNCHANGED g_creds
    /\ UNCHANGED <<g_env, g_calls>>
    /\ UNCHANGED <<secVars, driveVars, appVars, postVars, utilVars, priceVars, notifyVars>>

\* _user_creds_from_env: the retry with the drive.file scope
RefreshDriveFile ==
    /\ g_pc = "refresh2"
    /\ \E r \in RefreshOutcomes :
          /\ g_attempts' = Append(g_attempts, [scopes |-> "drive.file", outcome |-> r])
          /\ IF r = "ok"
               THEN g_creds' = [kind |-> "user", scopes |-> "drive.file"] /\ g_pc' = "build"
             ELSE IF r = "RefreshError"
               THEN g_pc' = "sa" /\ UNCHANGED g_creds
             ELSE g_pc' = r /\ UNCHANGED g_creds
    /\ UNCHANGED <<g_env, g_calls>>
    /\ UNCHANGED <<secVars, driveVars, appVars, postVars, utilVars, priceVars, notifyVars>>

\* _sa_creds_from_env, and the end of _get_creds
SaCredsFromEnv ==
    /\ g_pc = "sa"
    /\ IF SaSource(g_env) = "unset"
         THEN g_pc' = "SystemExit" /\ UNCHANGED g_creds
       ELSE IF SaSource(g_env) = "malformed"
         THEN g_pc' = "ValueError" /\ UNCHANGED g_creds
       ELSE g_creds' = [kind |-> "service account", scopes |-> "drive.file + drive"]
            /\ g_pc' = "build"
    /\ UNCHANGED <<g_env, g_attempts, g_calls>>
    /\ UNCHANGED <<secVars, driveVars, appVars, postVars, utilVars, priceVars, notifyVars>>

\* upload_to_drive: build(...), files().create(...).execute()
CreateFile ==
    /\ g_pc = "build"
    /\ g_calls' = g_calls + 1
    /\ \E end \in {"done", "HttpError"} : g_pc' = end
    /\ UNCHANGED <<g_env, g_attempts, g_creds>>
    /\ UNCHANGED <<secVars, driveVars, appVars, postVars, utilVars, priceVars, notifyVars>>

CredNext ==
    \/ CheckArgs \/ UserCredsFromEnv \/ RefreshOriginal \/ RefreshDriveFile
    \/ SaCredsFromEnv \/ CreateFile

\* _get_creds is over
CredsSettled == g_pc \in {"build", "done", "HttpError", "SystemExit", "ValueError", "TransportError"}

InGetCreds == g_env.file /\ g_env.folder

AllOAuthSet == g_env.oauth = {"GOOGLE_CLIENT_ID", "GOOGLE_CLIENT_SECRET", "GOOGLE_REFRESH_TOKEN"}

Tried(scopes, outcome) == \E i \in DOMAIN g_attempts : g_attempts[i] = [scopes |-> scopes, outcome |-> outcome]

BothRefreshesRefused == Tried("original", "RefreshError") /\ Tried("drive.file", "RefreshError")

SaGiven == g_env.sa_b64 # "unset" \/ g_env.sa_json # "unset"

\* C13: OAuth first.  No refresh is tried unless the three variables are
\* set; the drive.file refresh is tried only after the refresh with the
\* original scopes raised RefreshError; user credentials are returned exactly
\* when a refresh that was tried succeeded; service-account credentials only
\* with the OAuth variables missing or both refreshes refused; without
\* credentials no Drive API call is made, and with the OAuth variables
\* missing or both refreshes refused and no service-account variable set the
\* end is SystemExit.  (A refresh that raises another error than
\* RefreshError, and a service-account text that is no key, end the run with
\* that error, before any Drive API call as well.)
C13_OAuthFirstThenServiceAccount ==
    /\ g_attempts # <<>> => AllOAuthSet /\ g_attempts[1].scopes = "original"
    /\ Len(g_attempts) <= 2
    /\ Len(g_attempts) = 2 =>
          g_attempts[1].outcome = "RefreshError" /\ g_attempts[2].scopes = "drive.file"
    /\ (CredsSettled /\ InGetCreds) =>
          /\ g_creds.kind = "user" <=> (Tried("original", "ok") \/ Tried("drive.file", "ok"))
          /\ g_creds.kind = "user" =>
                g_creds.scopes = g_attempts[Len(g_attempts)].scopes
          /\ AllOAuthSet => g_attempts # <<>>
          /\ g_creds.kind = "service account" =>
                /\ ~AllOAuthSet \/ BothRefreshesRefused
                /\ SaGiven
          /\ g_creds = NoCreds =>
                /\ g_calls = 0
                /\ g_pc = "SystemExit" <=> ((~AllOAuthSet \/ BothRefreshesRefused) /\ ~SaGiven)
                /\ g_pc = "TransportError" <=>
                      (Tried("original", "TransportError") \/ Tried("drive.file", "TransportError"))
                /\ g_pc = "ValueError" <=> ((~AllOAuthSet \/ BothRefreshesRefused) /\ SaGiven)
    /\ g_calls > 0 => g_creds # NoCreds

\* the refresh with the original scopes was refused, the one with drive.file
\* succeeded, and the file was created with the user credentials
C13_Witness ==
    /\ g_pc = "done" /\ g_calls = 1
    /\ Len(g_attempts) = 2 /\ g_attempts[2].outcome = "ok"
    /\ g_creds = [kind |-> "user", scopes |-> "drive.file"]
    /\ g_env.sa_json = "valid"

(***************************************************************************)
(* slack_notify.py: analyze, the day-over-day comparison of two snapshots  *)
(***************************************************************************)
\* RISE_TH = int(os.getenv("RISE_TH", "30"))
RISE_TH == 30

\* DROP_TH = -int(os.getenv("DROP_TH", "30"))
DROP_TH == 0 - 30

\* head(10) of each of the four line groups
LineCap == 10

\* out_mask & (m["rank_prev"] <= 30)
OutTop == 30

\* rows of the longest snapshot file
NotifyRows == 42

\* The rows main.run saves for one day: the listing in page order, numbered
\* 1..n, a missing brand written as the empty cell.  The listing shows
\* products o+1..o+n, turned by k places; the row at position blank (if any)
\* has no brand.
Snapshot(n, k, o, blank) ==
    [i \in 1..n |-> [rank |-> i,
                     product_url |-> o + ((i - 1 + k) % n) + 1,
                     brand |-> IF i = blank THEN "" ELSE "Acme",
                     product_name |-> "Serum"]]

\* load_csv: pd.read_csv turns the empty cell into NaN
LoadCsv(rows) ==
    [i \in DOMAIN rows |-> [rank |-> rows[i].rank,
                            product_url |-> rows[i].product_url,
                            brand |-> ReadCsvCell(rows[i].brand),
                            product_name |-> ReadCsvCell(rows[i].product_name)]]

FrameUrls(df) == {df[i].product_url : i \in DOMAIN df}

FrameRow(df, u) == df[CHOOSE i \in DOMAIN df : df[i].product_url = u]

\* one row of pd.merge(t, p, on="product_url", how="outer"): the columns of
\* the side that lacks the product are NaN
MergedRow(t, p, u) ==
    [product_url |-> u,
     rank_today |-> IF u \in FrameUrls(t) THEN FrameRow(t, u).rank ELSE NoRank,
     brand_t    |-> IF u \in FrameUrls(t) THEN FrameRow(t, u).brand ELSE NaN,
     name_t     |-> IF u \in FrameUrls(t) THEN FrameRow(t, u).product_name ELSE NaN,
     rank_prev  |-> IF u \in FrameUrls(p) THEN FrameRow(p, u).rank ELSE NoRank,
     brand_p    |-> IF u \in FrameUrls(p) THEN FrameRow(p, u).brand ELSE NaN,
     name_p     |-> IF u \in FrameUrls(p) THEN FrameRow(p, u).product_name ELSE NaN]

Merged(t, p) == {MergedRow(t, p, u) : u \in FrameUrls(t) \cup FrameUrls(p)}

NewMask(r) == r.rank_prev = NoRank /\ r.rank_today # NoRank

OutMask(r) == r.rank_today = NoRank /\ r.rank_prev # NoRank

StayMask(r) == r.rank_today # NoRank /\ r.rank_prev # NoRank

\* stay["delta"] = stay["rank_prev"] - stay["rank_today"]
Delta(r) == r.rank_prev - r.rank_today

\* stay[stay["delta"] >= RISE_TH]
IsUp(r) == StayMask(r) /\ Delta(r) >= RISE_TH

\* stay[stay["delta"] <= DROP_TH]
IsDownIn(r) == StayMask(r) /\ Delta(r) <= DROP_TH

\* m[out_mask & (m["rank_prev"] <= 30)]
IsOutTop30(r) == OutMask(r) /\ r.rank_prev <= OutTop

\* sort_values(["delta","rank_today"], ascending=[False,True])
UpLess(x, y) ==
    \/ Delta(x) > Delta(y)
    \/ Delta(x) = Delta(y) /\ x.rank_today < y.rank_today

\* sort_values(["delta","rank_today"])
DownLess(x, y) ==
    \/ Delta(x) < Delta(y)
    \/ Delta(x) = Delta(y) /\ x.rank_today < y.rank_today

\* sort_values("rank_prev")
PrevLess(x, y) == x.rank_prev < y.rank_prev

\* sort_values("rank_today")
TodayLess(x, y) == x.rank_today < y.rank_today

\* sort_values on rows that a strict total order tells apart
SortRows(R, Less(_, _)) ==
    [i \in 1..Cardinality(R) |->
        CHOOSE x \in R : Cardinality({y \in R : Less(y, x)}) = i - 1]

\* Python's  a or b  on cells that are a non-empty string or NaN: NaN is a
\* float other than zero, so it is truthy and wins
PyOr(a, b) == IF a = "" THEN b ELSE a

\* tidy_title: (brand or "").strip() on a NaN cell is a float's .strip()
TidyTitleRaises(brand, name) == brand = NaN \/ name = NaN

\* tidy_title: brand and name joined, linked to the product
TidyTitle(brand, name, url) == Link(url, <<brand, name>>)

RowBrand(r) == PyOr(r.brand_t, r.brand_p)

RowName(r) == PyOr(r.name_t, r.name_p)

RowRaises(r) == TidyTitleRaises(RowBrand(r), RowName(r))

RowTitle(r) == TidyTitle(RowBrand(r), RowName(r), r.product_url)

\* row_up, row_down, row_new, row_out
RowLine(kind, r) ==
    [kind |-> kind, product_url |-> r.product_url, title |-> RowTitle(r),
     rank_prev |-> r.rank_prev, rank_today |-> r.rank_today,
     delta |-> IF StayMask(r) THEN Delta(r) ELSE 0]

RowLines(kind, rows) == [i \in DOMAIN rows |-> RowLine(kind, rows[i])]

Separator == [kind |-> "separator"]

NoAnalysis ==
    [status |-> "pending", up |-> <<>>, new |-> <<>>, down_in |-> <<>>, out |-> <<>>,
     down |-> <<>>, inout |-> 0]

\* analyze(df_today, df_prev)
Analyze(t, p) ==
    LET m         == Merged(t, p)
        ups       == Take(SortRows({r \in m : IsUp(r)}, UpLess), LineCap)
        down_in   == Take(SortRows({r \in m : IsDownIn(r)}, DownLess), LineCap)
        out_top30 == Take(SortRows({r \in m : IsOutTop30(r)}, PrevLess), LineCap)
        newcomers == Take(SortRows({r \in m : NewMask(r)}, TodayLess), LineCap)
        ins_cnt   == Cardinality({r \in m : NewMask(r)})
        outs_cnt  == Cardinality({r \in m : OutMask(r)})
        shown     == Range(ups) \cup Range(newcomers) \cup Range(down_in) \cup Range(out_top30)
        lines_down == RowLines("down", down_in)
        lines_out  == RowLines("out", out_top30)
    IN  IF \E r \in shown : RowRaises(r)
          THEN [NoAnalysis EXCEPT !.status = "AttributeError"]
          ELSE [status  |-> "ok",
                up      |-> RowLines("up", ups),
                new     |-> RowLines("new", newcomers),
                down_in |-> lines_down,
                out     |-> lines_out,
                down    |-> IF lines_out = <<>> THEN lines_down
                            ELSE IF lines_down = <<>> THEN lines_out
                            ELSE lines_down \o <<Separator>> \o lines_out,
                inout   |-> ins_cnt + outs_cnt]

\* the snapshot files the comparison is tried on
Snapshots ==
    {Snapshot(n, k, o, blank) :
        n \in {12, OutTop, NotifyRows}, k \in {0, 11, 30}, o \in {0, 11}, blank \in {0, 1, 12}}
    \cup {<<>>}

AnalyzeInit ==
    /\ an_today \in {LoadCsv(s) : s \in Snapshots}
    /\ an_prev \in {LoadCsv(s) : s \in Snapshots}
    /\ A = NoAnalysis
    /\ n_data = <<>> /\ N = [status |-> "idle"]

DoAnalyze ==
    /\ A.status = "pending"
    /\ A' = Analyze(an_today, an_prev)
    /\ UNCHANGED <<an_today, an_prev, n_data, N>>
    /\ UNCHANGED <<secVars, driveVars, appVars, postVars, utilVars, priceVars, credVars>>

AnalyzeNext == DoAnalyze

NotifyIdle ==
    /\ an_today = <<>> /\ an_prev = <<>> /\ A = NoAnalysis
    /\ n_data = <<>> /\ N = [status |-> "idle"]

(***************************************************************************)
(* slack_notify.py: main on the data/ directory of daily snapshot files    *)
(***************************************************************************)
\* days on which a snapshot may have been saved
NotifyDays == 3

\* the calendar dates of those days: the last day of a year, then days of
\* January from the 9th on
Dates ==
    {[y |-> 2024, m |-> 12, d |-> 31]}
    \cup {[y |-> 2025, m |-> 1, d |-> 8 + k] : k \in 1..(NotifyDays - 1)}

DateLess(a, b) ==
    \/ a.y < b.y
    \/ a.y = b.y /\ a.m < b.m
    \/ a.y = b.y /\ a.m = b.m /\ a.d < b.d

\* characters by their code points: '0' is 48, '-' is 45
Digit(c) == 48 + c

\* %m and %d: two digits, zero-padded
Pad2(n) == <<Digit(n \div 10), Digit(n % 10)>>

\* %Y
Pad4(n) == <<Digit(n \div 1000), Digit((n \div 100) % 10), Digit((n \div 10) % 10), Digit(n % 10)>>

\* strftime("%Y-%m-%d"): the part of the file name that the glob's * matches
KstDateStr(date) == Pad4(date.y) \o <<45>> \o Pad2(date.m) \o <<45>> \o Pad2(date.d)

\* str.__lt__
StrLess(a, b) ==
    \/ \E i \in 1..Min2(Len(a), Len(b)) :
          a[i] < b[i] /\ \A j \in 1..(i - 1) : a[j] = b[j]
    \/ Len(a) < Len(b) /\ \A j \in 1..Len(a) : a[j] = b[j]

NoFile == <<>>

\* find_latest_prev
FindLatestPrev(data) ==
    LET files == SortRows(DOMAIN data, StrLess)
    IN  IF files = <<>> THEN [latest |-> NoFile, prev |-> NoFile]
        ELSE [latest |-> files[Len(files)],
              prev   |-> IF Len(files) >= 2 THEN files[Len(files) - 1] ELSE NoFile]

\* df.sort_values("rank").head(10)
NotifyTop10Rows(df) == Take(SortRows(Range(df), LAMBDA x, y : x.rank < y.rank), LineCap)

BuildTop10Raises(df) ==
    \E r \in Range(NotifyTop10Rows(df)) : TidyTitleRaises(r.brand, r.product_name)

\* build_top10
BuildTop10(df) ==
    LET rows == NotifyTop10Rows(df)
    IN  [i \in DOMAIN rows |->
            [rank |-> rows[i].rank,
             title |-> TidyTitle(rows[i].brand, rows[i].product_name, rows[i].product_url)]]

NoMsg == [kind |-> "none"]

NotifyOutcome(status, sel, msg, posted) ==
    [status |-> status, latest |-> sel.latest, prev |-> sel.prev, msg |-> msg, posted |-> posted]

\* main()
NotifyMainResult(data, urlSet, reply) ==
    LET sel == FindLatestPrev(data)
    IN  IF sel.latest = NoFile THEN NotifyOutcome("no_csv", sel, NoMsg, FALSE)
        ELSE
        LET today == LoadCsv(data[sel.latest])
        IN  IF BuildTop10Raises(today) THEN NotifyOutcome("AttributeError", sel, NoMsg, FALSE)
            ELSE
            LET top10 == BuildTop10(today)
                res   == IF sel.prev # NoFile THEN Analyze(today, LoadCsv(data[sel.prev]))
                         ELSE NoAnalysis
                msg   == IF sel.prev # NoFile
                           THEN [kind |-> "comparison", top10 |-> top10, up |-> res.up,
                                 new |-> res.new, down |-> res.down, inout |-> res.inout]
                           ELSE [kind |-> "first_run", top10 |-> top10]
                post  == PostSlack(urlSet, reply)
            IN  IF res.status = "AttributeError"
                  THEN NotifyOutcome("AttributeError", sel, NoMsg, FALSE)
                  ELSE NotifyOutcome(IF post.raised THEN "raised" ELSE "sent", sel, msg, post.posted)

\* the snapshot files a day's run may leave
NotifySnaps ==
    {<<>>, Snapshot(12, 0, 0, 0), Snapshot(12, 0, 0, 1), Snapshot(NotifyRows, 0, 0, 0),
     Snapshot(NotifyRows, 30, 0, 0)}

NotifyInit ==
    /\ n_data = <<>> /\ N = [status |-> "idle"]
    /\ an_today = <<>> /\ an_prev = <<>> /\ A = NoAnalysis

\* main.run: the day's rows saved as data/oliveyoung_global_<date>.csv
RunSave ==
    /\ \E date \in Dates, rows \in NotifySnaps :
          n_data' = [f \in DOMAIN n_data \cup {KstDateStr(date)} |->
                        IF f = KstDateStr(date) THEN rows ELSE n_data[f]]
    /\ N' = [status |-> "idle"]
    /\ UNCHANGED <<an_today, an_prev, A>>
    /\ UNCHANGED <<secVars, driveVars, appVars, postVars, utilVars, priceVars, credVars>>

\* python slack_notify.py
NotifyMain ==
    /\ N.status = "idle"
    /\ \E urlSet \in BOOLEAN, reply \in WebhookReplies :
          N' = NotifyMainResult(n_data, urlSet, reply)
    /\ UNCHANGED <<an_today, an_prev, A, n_data>>
    /\ UNCHANGED <<secVars, driveVars, appVars, postVars, utilVars, priceVars, credVars>>

NotifyNext == RunSave \/ NotifyMain

AnalyzeUrlsNew == FrameUrls(an_today) \ FrameUrls(an_prev)

AnalyzeUrlsGone == FrameUrls(an_prev) \ FrameUrls(an_today)

AnalyzeUrlsBoth == FrameUrls(an_today) \cap FrameUrls(an_prev)

RankChange(u) == FrameRow(an_prev, u).rank - FrameRow(an_today, u).rank

\* C16: analyze returns its line groups and the in&out total for the two
\* snapshots.  A product is in the surge lines only if it is in both snapshots
\* with rank_prev - rank_today >= 30, in the plunge lines only if it is in both
\* with rank_prev - rank_today <= -30, in the OUT lines only if it is absent
\* today and had a previous rank <= 30; each of the four groups has at most 10
\* lines; the total is the number of new products plus the number of dropped
\* products, whatever their ranks.
C16_AnalyzeLinesAndTotal ==
    A.status # "pending" =>
        /\ A.status = "ok"
        /\ \A l \in Range(A.up) :
              l.product_url \in AnalyzeUrlsBoth /\ RankChange(l.product_url) >= RISE_TH
        /\ \A l \in Range(A.down_in) :
              l.product_url \in AnalyzeUrlsBoth /\ RankChange(l.product_url) <= DROP_TH
        /\ \A l \in Range(A.out) :
              l.product_url \in AnalyzeUrlsGone /\ FrameRow(an_prev, l.product_url).rank <= OutTop
        /\ Len(A.up) <= LineCap /\ Len(A.new) <= LineCap
        /\ Len(A.down_in) <= LineCap /\ Len(A.out) <= LineCap
        /\ A.inout = Cardinality(AnalyzeUrlsNew) + Cardinality(AnalyzeUrlsGone)

\* the dates of the snapshot files in data/
FileDates == {date \in Dates : KstDateStr(date) \in DOMAIN n_data}

LatestDate == CHOOSE a \in FileDates : \A b \in FileDates : ~DateLess(a, b)

DateBefore(a) ==
    CHOOSE b \in FileDates : DateLess(b, a) /\ \A c \in FileDates : DateLess(c, a) => ~DateLess(b, c)

\* C17: once main has run on the directory: with no file it posts nothing;
\* otherwise today's snapshot is the file of the greatest date and the previous
\* snapshot is the file of the date immediately before it; with exactly one
\* file it hands post_slack the Top 10 with the first-run notice and no
\* comparison sections.
C17_LatestAndPrevious ==
    N.status # "idle" =>
        /\ FileDates = {} => N.status = "no_csv" /\ N.msg = NoMsg /\ ~N.posted
        /\ FileDates # {} => N.latest = KstDateStr(LatestDate)
        /\ Cardinality(FileDates) >= 2 => N.prev = KstDateStr(DateBefore(LatestDate))
        /\ Cardinality(FileDates) = 1 =>
              /\ N.prev = NoFile
              /\ N.msg = [kind |-> "first_run", top10 |-> BuildTop10(LoadCsv(n_data[N.latest]))]

(***************************************************************************)
(* Specifications                                                          *)
(***************************************************************************)
InitSections == SecInit /\ DriveIdle /\ AppIdle /\ PostIdle /\ UtilIdle /\ PriceIdle /\ CredIdle /\ NotifyIdle

\* build_sections on the frames main can hand it
SpecSections == InitSections /\ [][SecNext]_vars

InitDrive == DriveInit /\ SecIdle /\ AppIdle /\ PostIdle /\ UtilIdle /\ PriceIdle /\ CredIdle /\ NotifyIdle

\* sequences of drive_upload_csv calls on a folder
SpecDrive == InitDrive /\ [][DriveNext]_vars

Init == AppInit /\ PostIdle /\ UtilIdle /\ PriceIdle /\ CredIdle /\ NotifyIdle

\* the scheduled runs of app.py, one after the other
Spec == Init /\ [][AppNext]_vars

InitPost == PostIdle /\ SecIdle /\ DriveIdle /\ AppIdle /\ UtilIdle /\ PriceIdle /\ CredIdle /\ NotifyIdle

\* calls of the three posting steps
SpecPost == InitPost /\ [][PostNext]_vars

InitUtils == UtilInit /\ SecIdle /\ DriveIdle /\ AppIdle /\ PostIdle /\ PriceIdle /\ CredIdle /\ NotifyIdle

\* compute_diffs_and_blocks on pairs of snapshots
SpecUtils == InitUtils /\ [][UtilNext]_vars

InitPrice == PriceInit /\ SecIdle /\ DriveIdle /\ AppIdle /\ PostIdle /\ UtilIdle /\ CredIdle /\ NotifyIdle

\* parse_prices_and_discount on price blocks
SpecPrice == InitPrice /\ [][PriceNext]_vars

InitCreds ==
    CredInit /\ SecIdle /\ DriveIdle /\ AppIdle /\ PostIdle /\ UtilIdle /\ PriceIdle /\ NotifyIdle

\* upload_to_drive in every environment
SpecCreds == InitCreds /\ [][CredNext]_vars

InitAnalyze ==
    AnalyzeInit /\ SecIdle /\ DriveIdle /\ AppIdle /\ PostIdle /\ UtilIdle /\ PriceIdle /\ CredIdle

\* slack_notify.analyze on pairs of snapshot files
SpecAnalyze == InitAnalyze /\ [][AnalyzeNext]_vars

InitNotify ==
    NotifyInit /\ SecIdle /\ DriveIdle /\ AppIdle /\ PostIdle /\ UtilIdle /\ PriceIdle /\ CredIdle

\* days of snapshot files and runs of slack_notify.py
SpecNotify == InitNotify /\ [][NotifyNext]_vars

====
